---- MODULE Spec2Model ----
(***************************************************************************)
(* Model of sentio_prober_control.Sentio.CommandGroups.VisionCommandGroup. *)
(*                                                                         *)
(* A command line is a TLA+ string.  A response payload (the text that     *)
(* Response.message() returns) is a sequence of one-character strings, so  *)
(* that split / strip / upper / lower / float / b64decode are computed     *)
(* character by character as Python computes them.                         *)
(*                                                                         *)
(* A float is the record [i |-> integer part, f |-> fractional digits      *)
(* without trailing zeros]; 0.9 is [i |-> 0, f |-> <<9>>].                 *)
(***************************************************************************)
EXTENDS Integers, Sequences, FiniteSets, TLC

VARIABLES chan, nSent, nRead, fs, last

vars == <<chan, nSent, nRead, fs, last>>

\* Bound on the number of operations issued on the channel.
MaxCalls == 2

-----------------------------------------------------------------------------
(* Python str primitives over character sequences                          *)

Digits == <<"0", "1", "2", "3", "4", "5", "6", "7", "8", "9">>

IsDigit(c) == \E d \in 1..10 : Digits[d] = c

DigitVal(c) == (CHOOSE d \in 1..10 : Digits[d] = c) - 1

IsSpace(c) == c = " "

\* str.upper() on one character
UpperChar(c) ==
  CASE c = "a" -> "A"
    [] c = "x" -> "X"
    [] c = "y" -> "Y"
    [] c = "z" -> "Z"
    [] OTHER -> c

\* str.lower() on one character
LowerChar(c) ==
  CASE c = "A" -> "a"
    [] c = "X" -> "x"
    [] c = "Y" -> "y"
    [] c = "Z" -> "z"
    [] OTHER -> c

upper(s) == [k \in 1..Len(s) |-> UpperChar(s[k])]

lower(s) == [k \in 1..Len(s) |-> LowerChar(s[k])]

\* str.capitalize(): first character upper-cased, the rest lower-cased
capitalize(s) == [k \in 1..Len(s) |-> IF k = 1 THEN UpperChar(s[k]) ELSE LowerChar(s[k])]

RECURSIVE LStrip(_)
LStrip(s) == IF s /= <<>> /\ IsSpace(Head(s)) THEN LStrip(Tail(s)) ELSE s

RECURSIVE RStrip(_)
RStrip(s) ==
  IF s /= <<>> /\ IsSpace(s[Len(s)]) THEN RStrip(SubSeq(s, 1, Len(s) - 1)) ELSE s

\* str.strip()
strip(s) == RStrip(LStrip(s))

\* str.split(sep) with an explicit one-character separator: empty fields are
\* kept and "".split(sep) is [""].
RECURSIVE SplitFrom(_, _, _)
SplitFrom(s, sep, cur) ==
  IF s = <<>> THEN <<cur>>
  ELSE IF Head(s) = sep THEN <<cur>> \o SplitFrom(Tail(s), sep, <<>>)
  ELSE SplitFrom(Tail(s), sep, Append(cur, Head(s)))

split(s, sep) == SplitFrom(s, sep, <<>>)

RECURSIVE DigitsVal(_)
DigitsVal(ds) ==
  IF ds = <<>> THEN 0 ELSE 10 * DigitsVal(SubSeq(ds, 1, Len(ds) - 1)) + DigitVal(ds[Len(ds)])

RECURSIVE DropTrailingZeros(_)
DropTrailingZeros(ds) ==
  IF ds /= <<>> /\ ds[Len(ds)] = 0 THEN DropTrailingZeros(SubSeq(ds, 1, Len(ds) - 1)) ELSE ds

AllDigits(s) == \A k \in 1..Len(s) : IsDigit(s[k])

\* float(str): surrounding whitespace is ignored; the accepted literals over
\* the model's alphabet are  d+ , d+. , d+.d+ , .d+  (no sign, no exponent).
\* The result is [ok |-> FALSE] when Python raises ValueError.
float(tok) ==
  LET t == strip(tok)
      parts == split(t, ".")
      ip == parts[1]
      fp == IF Len(parts) = 2 THEN parts[2] ELSE <<>>
  IN IF /\ Len(parts) <= 2
        /\ AllDigits(ip) /\ AllDigits(fp)
        /\ Len(ip) + Len(fp) > 0
     THEN [ok |-> TRUE,
           v |-> [i |-> DigitsVal(ip),
                  f |-> DropTrailingZeros([k \in 1..Len(fp) |-> DigitVal(fp[k])])]]
     ELSE [ok |-> FALSE, v |-> [i |-> 0, f |-> <<>>]]

-----------------------------------------------------------------------------
(* base64.b64decode                                                        *)

B64Alphabet ==
  <<"A", "B", "C", "D", "E", "F", "G", "H", "I", "J", "K", "L", "M", "N", "O", "P",
    "Q", "R", "S", "T", "U", "V", "W", "X", "Y", "Z", "a", "b", "c", "d", "e", "f",
    "g", "h", "i", "j", "k", "l", "m", "n", "o", "p", "q", "r", "s", "t", "u", "v",
    "w", "x", "y", "z", "0", "1", "2", "3", "4", "5", "6", "7", "8", "9", "+", "/">>

IsB64(c) == \E k \in 1..Len(B64Alphabet) : B64Alphabet[k] = c

B64Val(c) == (CHOOSE k \in 1..Len(B64Alphabet) : B64Alphabet[k] = c) - 1

\* binascii.a2b_base64 in its default, non-strict mode: characters outside
\* the alphabet are skipped, a completed pad sequence ends the parse, and a
\* quad left open at the end of the input is an error (binascii.Error).
RECURSIVE a2b_base64(_, _, _, _, _)
a2b_base64(s, quad_pos, leftchar, pads, out) ==
  IF s = <<>>
  THEN IF quad_pos /= 0 THEN [ok |-> FALSE, bytes |-> <<>>] ELSE [ok |-> TRUE, bytes |-> out]
  ELSE LET c == Head(s)
           rest == Tail(s)
       IN IF c = "="
          THEN IF quad_pos >= 2 /\ quad_pos + pads + 1 >= 4
               THEN [ok |-> TRUE, bytes |-> out]
               ELSE a2b_base64(rest, quad_pos, leftchar,
                               IF quad_pos >= 2 THEN pads + 1 ELSE pads, out)
          ELSE IF ~IsB64(c)
          THEN a2b_base64(rest, quad_pos, leftchar, pads, out)
          ELSE LET v == B64Val(c)
               IN CASE quad_pos = 0 -> a2b_base64(rest, 1, v, 0, out)
                    [] quad_pos = 1 ->
                         a2b_base64(rest, 2, v % 16, 0, Append(out, leftchar * 4 + v \div 16))
                    [] quad_pos = 2 ->
                         a2b_base64(rest, 3, v % 4, 0, Append(out, leftchar * 16 + v \div 4))
                    [] OTHER ->
                         a2b_base64(rest, 0, 0, 0, Append(out, leftchar * 64 + v))

b64decode(s) == a2b_base64(s, 0, 0, 0, <<>>)

-----------------------------------------------------------------------------
(* Argument vocabularies and Python string formatting of arguments         *)

AutoAlignCmd == {"AlignOnly", "AutoDieSize", "TwoPt"}

AutoAlignCmd_to_string(mode) ==
  CASE mode = "AlignOnly" -> "alignonly"
    [] mode = "AutoDieSize" -> "autodiesize"
    [] mode = "TwoPt" -> "twopt"

AutoFocusCmd == {"Focus", "Calibration"}

AutoFocusCmd_to_string(af_cmd) ==
  CASE af_cmd = "Focus" -> "focus"
    [] af_cmd = "Calibration" -> "calibration"

CameraMountPoint == {"Scope", "OffAxis"}

CameraMountPoint_to_string(camera) ==
  CASE camera = "Scope" -> "scope"
    [] camera = "OffAxis" -> "offaxis"

DetectionAlgorithm == {"ProbeDetector", "Keypoint"}

DetectionAlgorithm_to_string(detector) ==
  CASE detector = "ProbeDetector" -> "probedetector"
    [] detector = "Keypoint" -> "keypoint"

DetectionCoordindates == {"Roi", "Fov"}

DetectionCoordindates_to_string(coords) ==
  CASE coords = "Roi" -> "roi"
    [] coords = "Fov" -> "fov"

FindPatternReference == {"CenterOfRoi", "DieHome"}

FindPatternReference_to_string(reference) ==
  CASE reference = "CenterOfRoi" -> "centerofroi"
    [] reference = "DieHome" -> "diehome"

PtpaType == {"OffAxis", "OnAxis"}

PtpaType_to_string(ptpa_type) ==
  CASE ptpa_type = "OffAxis" -> "offaxis"
    [] ptpa_type = "OnAxis" -> "onaxis"

PtpaFindTipsMode == {"OffAxis", "OnAxis"}

PtpaFindTipsMode_to_string(ptpa_mode) ==
  CASE ptpa_mode = "OffAxis" -> "offaxis"
    [] ptpa_mode = "OnAxis" -> "onaxis"

SnapshotType == {"CameraRaw", "WithOverlays"}

SnapshotType_to_string(what) ==
  CASE what = "CameraRaw" -> "0"
    [] what = "WithOverlays" -> "1"

SnapshotLocation == {"Prober", "Local"}

DieCompensationType == {"DieAlign", "Topography"}

DieCompensationType_to_string(comp_type) ==
  CASE comp_type = "DieAlign" -> "diealign"
    [] comp_type = "Topography" -> "topography"

DieCompensationMode == {"Lateral", "Vertical"}

DieCompensationMode_to_string(comp_mode) ==
  CASE comp_mode = "Lateral" -> "lateral"
    [] comp_mode = "Vertical" -> "vertical"

\* Members of MoveAxis, by name, as character sequences (MoveAxis[name])
MoveAxis == {<<"X">>, <<"Y">>, <<"Z">>}

\* str(bool), as used by f"{stat}" and "{0}".format(stat)
BoolStr(stat) == IF stat THEN "True" ELSE "False"

\* str(int) for a natural number
RECURSIVE IntStr(_)
IntStr(n) == IF n < 10 THEN Digits[n + 1] ELSE IntStr(n \div 10) \o Digits[(n % 10) + 1]

RECURSIVE DigitSeqStr(_)
DigitSeqStr(ds) == IF ds = <<>> THEN "" ELSE Digits[Head(ds) + 1] \o DigitSeqStr(Tail(ds))

\* str(float): the shortest repr, which always shows a fractional part
FloatStr(v) == IntStr(v.i) \o "." \o (IF v.f = <<>> THEN "0" ELSE DigitSeqStr(v.f))

F(i, f) == [i |-> i, f |-> f]

-----------------------------------------------------------------------------
(* The instrument: it answers every command line with one response line,   *)
(* in the order the commands arrive.  A response is its status, its        *)
(* payload text, the number of the command it answers, and the value the   *)
(* instrument encoded in the payload (None when it encoded none).          *)

None == [t |-> "None"]

Floats(vs) == [t |-> "floats", fs |-> vs]

Bool(b) == [t |-> "bool", b |-> b]

RECURSIVE IntChars(_)
IntChars(n) == IF n < 10 THEN <<Digits[n + 1]>> ELSE Append(IntChars(n \div 10), Digits[(n % 10) + 1])

\* The instrument's rendering of a number
NumChars(v) ==
  IntChars(v.i) \o (IF v.f = <<>> THEN <<>> ELSE <<".">> \o [k \in 1..Len(v.f) |-> Digits[v.f[k] + 1]])

RECURSIVE Join(_, _)
Join(parts, sep) ==
  IF parts = <<>> THEN <<>>
  ELSE IF Len(parts) = 1 THEN parts[1]
  ELSE parts[1] \o <<sep>> \o Join(Tail(parts), sep)

ErrText == <<"b", "a", "d">>

Answer(ok, msg, data) == [ok |-> ok, msg |-> msg, seq |-> 0, data |-> data]

FailAnswer == Answer(FALSE, ErrText, None)

\* Answers to a command that has no result
VoidAnswers == {FailAnswer, Answer(TRUE, <<>>, None)}

FloatPool == {<<F(1, <<>>), F(2, <<5>>), F(0, <<9>>), F(10, <<>>)>>,
              <<F(0, <<0, 5>>), F(7, <<>>), F(3, <<>>), F(1, <<2>>)>>}

FloatsAnswer(vs) == Answer(TRUE, Join([k \in 1..Len(vs) |-> NumChars(vs[k])], ","), Floats(vs))

\* Answers to a command whose result is n comma-separated numbers: a failure,
\* well-formed payloads, a payload one field short and one with a
\* non-numeric field.
FloatsAnswers(n) ==
  {FailAnswer}
    \cup {FloatsAnswer(SubSeq(p, 1, n)) : p \in FloatPool}
    \cup {Answer(TRUE, Join([k \in 1..(n - 1) |-> <<"1">>], ","), None),
          Answer(TRUE, Join([k \in 1..n |-> IF k = n THEN <<"x">> ELSE <<"1">>], ","), None)}

FloatVal(v) == [t |-> "float", v |-> v]

\* Answers to vis:get_lens_zoom_level (one number)
ZoomAnswers ==
  {FailAnswer,
   Answer(TRUE, NumChars(F(2, <<>>)), FloatVal(F(2, <<>>))),
   Answer(TRUE, NumChars(F(1, <<5>>)), FloatVal(F(1, <<5>>))),
   Answer(TRUE, <<>>, None),
   Answer(TRUE, <<"1", ",", "2">>, None)}

Focus(h, axis) == [t |-> "focus", h |-> h, axis |-> axis]

\* Answers to vis:auto_focus (height, axis name)
FocusAnswers ==
  {FailAnswer,
   Answer(TRUE, <<"1", ".", "5", ",", "z">>, Focus(F(1, <<5>>), <<"Z">>)),
   Answer(TRUE, <<"2", ",", "Y">>, Focus(F(2, <<>>), <<"Y">>)),
   Answer(TRUE, <<"1">>, None),
   Answer(TRUE, <<"1", ",", "a">>, None),
   Answer(TRUE, <<"x", ",", "z">>, None)}

\* Answers to a boolean query: "1" and "0", and other payload texts
FlagAnswers ==
  {FailAnswer,
   Answer(TRUE, <<"1">>, Bool(TRUE)),
   Answer(TRUE, <<"0">>, Bool(FALSE)),
   Answer(TRUE, <<"1", " ">>, None),
   Answer(TRUE, <<" ", "1">>, None),
   Answer(TRUE, <<"a">>, None),
   Answer(TRUE, <<"A">>, None),
   Answer(TRUE, <<"1", "0">>, None)}

Tips(recs) == [t |-> "tips", recs |-> recs]

Tip5 == <<F(10, <<>>), F(20, <<>>), F(5, <<>>), F(5, <<>>), F(0, <<9>>)>>

Tip5b == <<F(1, <<>>), F(2, <<>>), F(3, <<>>), F(4, <<>>), F(0, <<8>>)>>

Tip6 == Tip5 \o <<F(2, <<>>)>>

Tip6b == Tip5b \o <<F(1, <<>>)>>

TipChars(rec) == Join([k \in 1..Len(rec) |-> NumChars(rec[k])], " ")

TipsAnswer(recs) == Answer(TRUE, Join([k \in 1..Len(recs) |-> TipChars(recs[k])], ","), Tips(recs))

\* Answers to vis:detect_probetips: records of 5 or 6 numbers, in any mix and
\* order, no record at all, and payloads that are not tip records.
TipsAnswers ==
  {FailAnswer}
    \cup {TipsAnswer(recs) : recs \in {<<>>, <<Tip5>>, <<Tip6>>, <<Tip5, Tip6>>, <<Tip6, Tip5>>,
                                       <<Tip6, Tip5b, Tip6b>>, <<Tip5, Tip6b, Tip5b>>}}
    \cup {Answer(TRUE, <<"1", " ", "2", " ", "3">>, None),
          Answer(TRUE, <<"1", " ", "2", " ", "x", " ", "4", " ", "5">>, None),
          Answer(TRUE, TipChars(Tip5) \o <<" ", "x">>, None)}

Image(bytes) == [t |-> "image", bytes |-> bytes]

\* Answers to vis:snap_image **download**: base64 text of the image
ImageAnswers ==
  {FailAnswer,
   Answer(TRUE, <<"Q", "Q", "=", "=">>, Image(<<65>>)),
   Answer(TRUE, <<"Q", "U", "I", "=">>, Image(<<65, 66>>)),
   Answer(TRUE, <<"Q", "Q">>, None),
   Answer(TRUE, <<"Q", "U", "J", "D", "Q">>, None)}

-----------------------------------------------------------------------------
(* The channel and the outcome of a call                                   *)

NoValue == [t |-> "-"]

NoResp == [ok |-> FALSE, msg |-> <<>>, seq |-> 0, data |-> NoValue]

Ret(v) == [outcome |-> "return", exc |-> "none", excMsg |-> <<>>, value |-> v, raisedAt |-> "none"]

Raise(exc, msg, at) ==
  [outcome |-> "raise", exc |-> exc, excMsg |-> msg, value |-> NoValue, raisedAt |-> at]

\* comm.send(cmd): the line goes out and the instrument queues its answer
send(ans) == Append(chan, [ans EXCEPT !.seq = nSent + 1])

\* comm.read_line(): the oldest line on the channel
read_line(ans) == Head(send(ans))

ResponseObj(resp) == [t |-> "Response", ok |-> resp.ok, msg |-> resp.msg]

\* Response.check_resp(line)
check_resp(resp) ==
  IF resp.ok THEN Ret(ResponseObj(resp)) ELSE Raise("ProberException", resp.msg, "check_resp")

\* float(tok[0]), ..., float(tok[n - 1]), evaluated left to right
RECURSIVE FloatFields(_, _, _, _)
FloatFields(tok, k, n, acc) ==
  IF k > n THEN Ret(Floats(acc))
  ELSE IF k > Len(tok) THEN Raise("IndexError", <<>>, "parse")
  ELSE IF ~float(tok[k]).ok THEN Raise("ValueError", <<>>, "parse")
  ELSE FloatFields(tok, k + 1, n, Append(acc, float(tok[k]).v))

\* resp = check_resp(...); tok = resp.message().split(","); return the floats
FloatTuple(c, n) ==
  IF c.outcome = "raise" THEN c ELSE FloatFields(split(c.value.msg, ","), 1, n, <<>>)

\* Response.check_resp(...) as the last statement of a method returning None
Checked(c) == IF c.outcome = "raise" THEN c ELSE Ret(None)

Paths == {"a.jpg", "b.jpg"}

Absent == [exists |-> FALSE, bytes |-> <<>>]

File(bytes) == [exists |-> TRUE, bytes |-> bytes]

\* State after a call that sent cmd: one more line sent, the answer queued,
\* and (when the call read a line) the oldest line taken off the channel.
Called(op, args, cmd, ans, read, res, newfs) ==
  /\ nSent' = nSent + 1
  /\ nRead' = IF read THEN nRead + 1 ELSE nRead
  /\ chan' = IF read THEN Tail(send(ans)) ELSE send(ans)
  /\ fs' = newfs
  /\ last' = [op |-> op, args |-> args, cmd |-> cmd, sent |-> 1,
              read |-> IF read THEN 1 ELSE 0,
              resp |-> IF read THEN read_line(ans) ELSE NoResp,
              own |-> nSent + 1, res |-> res]

-----------------------------------------------------------------------------
(* The operations of VisionCommandGroup                                    *)

Init ==
  /\ chan = <<>>
  /\ nSent = 0
  /\ nRead = 0
  /\ fs = [p \in Paths |-> IF p = "a.jpg" THEN File(<<7>>) ELSE Absent]
  /\ last = [op |-> "none", args |-> <<>>, cmd |-> "", sent |-> 0, read |-> 0,
             resp |-> NoResp, own |-> 0, res |-> Ret(None)]

\* align_wafer without the special case for the default mode
align_wafer_cmd_explicit(mode) == "vis:align_wafer " \o AutoAlignCmd_to_string(mode)

align_wafer_cmd(mode) ==
  IF mode = "AlignOnly"
  THEN "vis:align_wafer"
  ELSE "vis:align_wafer " \o AutoAlignCmd_to_string(mode)

align_wafer(mode, ans) ==
  /\ nSent < MaxCalls
  /\ Called("align_wafer", [mode |-> mode], align_wafer_cmd(mode), ans, TRUE,
            Checked(check_resp(read_line(ans))), fs)

\* align_die parsing the line it read without checking its status
align_die_result_unchecked(resp) == FloatFields(split(resp.msg, ","), 1, 3, <<>>)

align_die_result(resp) == FloatTuple(check_resp(resp), 3)

align_die(threshold, ans) ==
  /\ nSent < MaxCalls
  /\ Called("align_die", [threshold |-> threshold], "vis:align_die " \o FloatStr(threshold),
            ans, TRUE, align_die_result(read_line(ans)), fs)

\* prober.send_cmd(cmd): send the line, read one line, check it
send_cmd(ans) == check_resp(read_line(ans))

auto_focus_result(c) ==
  IF c.outcome = "raise" THEN c
  ELSE LET tok == split(c.value.msg, ",")
           h == FloatFields(tok, 1, 1, <<>>)
       IN IF h.outcome = "raise" THEN h
          ELSE IF Len(tok) < 2 THEN Raise("IndexError", <<>>, "parse")
          ELSE IF capitalize(tok[2]) \notin MoveAxis THEN Raise("KeyError", capitalize(tok[2]), "parse")
          ELSE Ret(Focus(h.value.fs[1], capitalize(tok[2])))

auto_focus(af_cmd, ans) ==
  /\ nSent < MaxCalls
  /\ Called("auto_focus", [af_cmd |-> af_cmd], "vis:auto_focus " \o AutoFocusCmd_to_string(af_cmd),
            ans, TRUE, auto_focus_result(send_cmd(ans)), fs)

camera_synchronize(ans) ==
  /\ nSent < MaxCalls
  /\ Called("camera_synchronize", <<>>, "vis:camera_synchronize", ans, TRUE,
            FloatTuple(check_resp(read_line(ans)), 3), fs)

\* The loop over str_tips; cid is the local that is set before the loop and
\* assigned only in iterations whose record has a 6th field.
RECURSIVE detect_probetips_loop(_, _, _, _)
detect_probetips_loop(str_tips, n, cid, found_tips) ==
  IF n > Len(str_tips) THEN Ret([t |-> "list", rows |-> found_tips])
  ELSE LET str_tip == split(strip(str_tips[n]), " ")
           num_col == Len(str_tip)
           xywhq == FloatFields(str_tip, 1, 5, <<>>)
       IN IF xywhq.outcome = "raise" THEN xywhq
          ELSE IF num_col >= 6
          THEN IF ~float(str_tip[6]).ok THEN Raise("ValueError", <<>>, "parse")
               ELSE detect_probetips_loop(str_tips, n + 1, float(str_tip[6]).v,
                      Append(found_tips, Append(xywhq.value.fs, float(str_tip[6]).v)))
          ELSE detect_probetips_loop(str_tips, n + 1, cid,
                 Append(found_tips, Append(xywhq.value.fs, cid)))

detect_probetips_result(resp) ==
  LET c == check_resp(resp)
  IN IF c.outcome = "raise" THEN c
     ELSE detect_probetips_loop(split(c.value.msg, ","), 1, F(0, <<>>), <<>>)

detect_probetips(camera, detector, coords, ans) ==
  /\ nSent < MaxCalls
  /\ Called("detect_probetips", [camera |-> camera, detector |-> detector, coords |-> coords],
            "vis:detect_probetips " \o CameraMountPoint_to_string(camera) \o ", "
              \o DetectionAlgorithm_to_string(detector) \o ", "
              \o DetectionCoordindates_to_string(coords),
            ans, TRUE, detect_probetips_result(read_line(ans)), fs)

enable_follow_mode(stat, ans) ==
  /\ nSent < MaxCalls
  /\ Called("enable_follow_mode", [stat |-> stat], "vis:enable_follow_mode " \o BoolStr(stat),
            ans, TRUE, Checked(check_resp(read_line(ans))), fs)

find_home(ans) ==
  /\ nSent < MaxCalls
  /\ Called("find_home", <<>>, "vis:find_home", ans, TRUE,
            Checked(check_resp(read_line(ans))), fs)

find_pattern(name, threshold, pattern_index, reference, ans) ==
  /\ nSent < MaxCalls
  /\ Called("find_pattern",
            [name |-> name, threshold |-> threshold, pattern_index |-> pattern_index,
             reference |-> reference],
            "vis:find_pattern " \o name \o ", " \o IntStr(threshold) \o ", "
              \o IntStr(pattern_index) \o ", " \o FindPatternReference_to_string(reference),
            ans, TRUE, FloatTuple(check_resp(read_line(ans)), 4), fs)

has_camera_result(resp) ==
  LET c == check_resp(resp)
  IN IF c.outcome = "raise" THEN c ELSE Ret(Bool(upper(c.value.msg) = <<"1">>))

has_camera(camera, ans) ==
  /\ nSent < MaxCalls
  /\ Called("has_camera", [camera |-> camera],
            "vis:has_camera " \o CameraMountPoint_to_string(camera),
            ans, TRUE, has_camera_result(read_line(ans)), fs)

switch_all_lights(stat, ans) ==
  /\ nSent < MaxCalls
  /\ Called("switch_all_lights", [stat |-> stat], "vis:switch_all_lights " \o BoolStr(stat),
            ans, FALSE, Ret(None), fs)

remove_probetip_marker(ans) ==
  /\ nSent < MaxCalls
  /\ Called("remove_probetip_marker", <<>>, "vis:remove_probetip_marker", ans, TRUE,
            Checked(check_resp(read_line(ans))), fs)

match_tips(ptpa_type, ans) ==
  /\ nSent < MaxCalls
  /\ Called("match_tips", [ptpa_type |-> ptpa_type],
            "vis:match_tips " \o PtpaType_to_string(ptpa_type),
            ans, TRUE, FloatTuple(check_resp(read_line(ans)), 2), fs)

\* snap_image asking the instrument to store the file whatever the location
snap_image_cmd_remote(file, what, where) ==
  "vis:snap_image " \o file \o ", " \o SnapshotType_to_string(what)

snap_image_cmd(file, what, where) ==
  IF where = "Local"
  THEN "vis:snap_image **download**, " \o SnapshotType_to_string(what)
  ELSE "vis:snap_image " \o file \o ", " \o SnapshotType_to_string(what)

\* snap_image opening the file before it decodes the payload
snap_image_run_open_first(file, where, resp) ==
  IF where = "Local"
  THEN LET c == check_resp(resp)
           jpeg_data == b64decode(c.value.msg)
       IN IF c.outcome = "raise" THEN [res |-> c, fs |-> fs]
          ELSE IF ~jpeg_data.ok
          THEN [res |-> Raise("binascii.Error", <<>>, "b64decode"),
                fs |-> [fs EXCEPT ![file] = File(<<>>)]]
          ELSE [res |-> Ret(None), fs |-> [fs EXCEPT ![file] = File(jpeg_data.bytes)]]
  ELSE [res |-> Checked(check_resp(resp)), fs |-> fs]

\* The outcome of snap_image and the file system it leaves
snap_image_run(file, where, resp) ==
  IF where = "Local"
  THEN LET c == check_resp(resp)
           jpeg_data == b64decode(c.value.msg)
       IN IF c.outcome = "raise" THEN [res |-> c, fs |-> fs]
          ELSE IF ~jpeg_data.ok
          THEN [res |-> Raise("binascii.Error", <<>>, "b64decode"), fs |-> fs]
          ELSE [res |-> Ret(None), fs |-> [fs EXCEPT ![file] = File(jpeg_data.bytes)]]
  ELSE [res |-> Checked(check_resp(resp)), fs |-> fs]

snap_image(file, what, where, ans) ==
  /\ nSent < MaxCalls
  /\ Called("snap_image", [file |-> file, what |-> what, where |-> where],
            snap_image_cmd(file, what, where), ans, TRUE,
            snap_image_run(file, where, read_line(ans)).res,
            snap_image_run(file, where, read_line(ans)).fs)

switch_light(camera, stat, ans) ==
  /\ nSent < MaxCalls
  /\ Called("switch_light", [camera |-> camera, stat |-> stat],
            "vis:switch_light " \o CameraMountPoint_to_string(camera) \o ", " \o BoolStr(stat),
            ans, TRUE, Checked(check_resp(read_line(ans))), fs)

switch_camera(camera, ans) ==
  /\ nSent < MaxCalls
  /\ Called("switch_camera", [camera |-> camera],
            "vis:switch_camera " \o CameraMountPoint_to_string(camera),
            ans, FALSE, Ret(None), fs)

ptpa_find_pads(row, column, ans) ==
  /\ nSent < MaxCalls
  /\ Called("ptpa_find_pads", [row |-> row, column |-> column],
            "vis:execute_ptpa_find_pads " \o IntStr(row) \o "," \o IntStr(column),
            ans, TRUE, FloatTuple(check_resp(read_line(ans)), 3), fs)

ptpa_find_tips(ptpa_mode, ans) ==
  /\ nSent < MaxCalls
  /\ Called("ptpa_find_tips", [ptpa_mode |-> ptpa_mode],
            "vis:ptpa_find_tips " \o PtpaFindTipsMode_to_string(ptpa_mode),
            ans, TRUE, FloatTuple(check_resp(read_line(ans)), 3), fs)

start_fast_track(ans) ==
  /\ nSent < MaxCalls
  /\ Called("start_fast_track", <<>>, "vis:start_fast_track", ans, TRUE, send_cmd(ans), fs)

\* start_execute_compensation with only its own 'not ok' check
start_execute_compensation_result_own_check(resp) ==
  LET c == Ret(ResponseObj(resp))
  IN IF ~c.value.ok
     THEN Raise("ProberException", c.value.msg, "start_execute_compensation")
     ELSE c

start_execute_compensation_result(resp) ==
  LET c == check_resp(resp)
  IN IF c.outcome = "raise" THEN c
     ELSE IF ~c.value.ok
     THEN Raise("ProberException", c.value.msg, "start_execute_compensation")
     ELSE c

start_execute_compensation(comp_type, comp_mode, ans) ==
  /\ nSent < MaxCalls
  /\ Called("start_execute_compensation", [comp_type |-> comp_type, comp_mode |-> comp_mode],
            "vis:compensation:start_execute " \o DieCompensationType_to_string(comp_type)
              \o "," \o DieCompensationMode_to_string(comp_mode),
            ans, TRUE, start_execute_compensation_result(read_line(ans)), fs)

find_thermal_die_size(ans) ==
  /\ nSent < MaxCalls
  /\ Called("find_thermal_die_size", <<>>, "vis:find_thermal_die_size", ans, TRUE,
            FloatTuple(check_resp(read_line(ans)), 2), fs)

get_lens_zoom_level_result(resp) ==
  LET c == check_resp(resp)
  IN IF c.outcome = "raise" THEN c
     ELSE IF ~float(c.value.msg).ok THEN Raise("ValueError", <<>>, "parse")
     ELSE Ret(FloatVal(float(c.value.msg).v))

get_lens_zoom_level(ans) ==
  /\ nSent < MaxCalls
  /\ Called("get_lens_zoom_level", <<>>, "vis:get_lens_zoom_level", ans, TRUE,
            get_lens_zoom_level_result(read_line(ans)), fs)

set_lens_zoom_level(level, ans) ==
  /\ nSent < MaxCalls
  /\ Called("set_lens_zoom_level", [level |-> level],
            "vis:set_lens_zoom_level " \o FloatStr(level),
            ans, TRUE, Checked(check_resp(read_line(ans))), fs)

get_light_status_result(resp) ==
  LET c == check_resp(resp)
  IN IF c.outcome = "raise" THEN c ELSE Ret(Bool(lower(strip(c.value.msg)) = <<"1">>))

get_light_status(camera, ans) ==
  /\ nSent < MaxCalls
  /\ Called("get_light_status", [camera |-> camera],
            "vis:get_light_status " \o CameraMountPoint_to_string(camera),
            ans, TRUE, get_light_status_result(read_line(ans)), fs)

-----------------------------------------------------------------------------
Thresholds == {F(0, <<0, 5>>), F(1, <<5>>)}

ZoomLevels == {F(1, <<>>), F(2, <<>>)}

Next ==
  \/ \E mode \in AutoAlignCmd, ans \in VoidAnswers : align_wafer(mode, ans)
  \/ \E threshold \in Thresholds, ans \in FloatsAnswers(3) : align_die(threshold, ans)
  \/ \E af_cmd \in AutoFocusCmd, ans \in FocusAnswers : auto_focus(af_cmd, ans)
  \/ \E ans \in FloatsAnswers(3) : camera_synchronize(ans)
  \/ \E camera \in CameraMountPoint, ans \in TipsAnswers :
        detect_probetips(camera, "ProbeDetector", "Roi", ans)
  \/ \E stat \in BOOLEAN, ans \in VoidAnswers : enable_follow_mode(stat, ans)
  \/ \E ans \in VoidAnswers : find_home(ans)
  \/ \E reference \in FindPatternReference, ans \in FloatsAnswers(4) :
        find_pattern("home", 70, 0, reference, ans)
  \/ \E camera \in CameraMountPoint, ans \in FlagAnswers : has_camera(camera, ans)
  \/ \E stat \in BOOLEAN, ans \in VoidAnswers : switch_all_lights(stat, ans)
  \/ \E ans \in VoidAnswers : remove_probetip_marker(ans)
  \/ \E ptpa_type \in PtpaType, ans \in FloatsAnswers(2) : match_tips(ptpa_type, ans)
  \/ \E file \in Paths, what \in SnapshotType, where \in SnapshotLocation :
        \E ans \in (IF where = "Local" THEN ImageAnswers ELSE VoidAnswers) :
           snap_image(file, what, where, ans)
  \/ \E camera \in CameraMountPoint, stat \in BOOLEAN, ans \in VoidAnswers :
        switch_light(camera, stat, ans)
  \/ \E camera \in CameraMountPoint, ans \in VoidAnswers : switch_camera(camera, ans)
  \/ \E rc \in {<<0, 0>>, <<1, 12>>}, ans \in FloatsAnswers(3) : ptpa_find_pads(rc[1], rc[2], ans)
  \/ \E ptpa_mode \in PtpaFindTipsMode, ans \in FloatsAnswers(3) : ptpa_find_tips(ptpa_mode, ans)
  \/ \E ans \in VoidAnswers : start_fast_track(ans)
  \/ \E comp_type \in DieCompensationType, comp_mode \in DieCompensationMode, ans \in VoidAnswers :
        start_execute_compensation(comp_type, comp_mode, ans)
  \/ \E ans \in FloatsAnswers(2) : find_thermal_die_size(ans)
  \/ \E ans \in ZoomAnswers : get_lens_zoom_level(ans)
  \/ \E level \in ZoomLevels, ans \in VoidAnswers : set_lens_zoom_level(level, ans)
  \/ \E camera \in CameraMountPoint, ans \in FlagAnswers : get_light_status(camera, ans)

Spec == Init /\ [][Next]_vars

-----------------------------------------------------------------------------
(* Properties                                                              *)

Completed == last.op /= "none"

Raised == last.res.outcome = "raise"

Returned == last.res.outcome = "return"

\* C1: every operation sends exactly one command line and then reads exactly
\* one response line, so after every completed operation as many lines were
\* read as sent and no response is left unread on the channel.
C1_OneSendOneRead ==
  Completed => /\ last.sent = 1
             /\ last.read = 1
             /\ nRead = nSent
             /\ chan = <<>>

\* C2: the response line an operation consumes is the instrument's answer to
\* the command that this same operation sent.
C2_OwnResponse ==
  (Completed /\ last.read = 1) => last.resp.seq = last.own

VoidOps == {"align_wafer", "enable_follow_mode", "find_home", "remove_probetip_marker",
            "switch_light", "set_lens_zoom_level"}

ResponseOps == {"start_fast_track", "start_execute_compensation"}

Arity(op) ==
  CASE op \in {"align_die", "camera_synchronize", "ptpa_find_pads", "ptpa_find_tips"} -> 3
    [] op = "find_pattern" -> 4
    [] op \in {"match_tips", "find_thermal_die_size"} -> 2
    [] OTHER -> 0

\* The payload of the response read is a well-formed payload for the last
\* operation: the instrument encoded in it a value of the shape and arity
\* the operation returns (any payload for an operation that returns None or
\* the response itself).
WellFormed ==
  LET d == last.resp.data
  IN \/ last.op \in VoidOps \cup ResponseOps
     \/ last.op = "snap_image" /\ (last.args.where = "Local" => d.t = "image")
     \/ Arity(last.op) > 0 /\ d.t = "floats" /\ Len(d.fs) = Arity(last.op)
     \/ last.op = "get_lens_zoom_level" /\ d.t = "float"
     \/ last.op = "auto_focus" /\ d.t = "focus"
     \/ last.op \in {"has_camera", "get_light_status"} /\ d.t = "bool"
     \/ last.op = "detect_probetips" /\ d.t = "tips" /\ d.recs /= <<>>

\* The value returned is the value the instrument encoded (for tip records:
\* one row per record, carrying the record's x, y, width, height and score).
ParsedValue ==
  LET d == last.resp.data
      v == last.res.value
  IN CASE last.op \in VoidOps \cup {"snap_image"} -> v = None
       [] last.op \in ResponseOps -> v = ResponseObj(last.resp)
       [] last.op = "detect_probetips" ->
            /\ v.t = "list"
            /\ Len(v.rows) = Len(d.recs)
            /\ \A n \in 1..Len(d.recs) : SubSeq(v.rows[n], 1, 5) = SubSeq(d.recs[n], 1, 5)
       [] OTHER -> v = d

C4_ClassIdDefault ==
  (last.op = "detect_probetips" /\ Returned /\ last.resp.data.t = "tips") =>
     /\ Len(last.res.value.rows) = Len(last.resp.data.recs)
     /\ \A n \in 1..Len(last.resp.data.recs) :
          last.res.value.rows[n][6] =
            IF Len(last.resp.data.recs[n]) = 5 THEN F(0, <<>>) ELSE last.resp.data.recs[n][6]

C4_FailingInput ==
  /\ last.op = "detect_probetips"
  /\ last.resp.msg = TipChars(Tip6) \o <<",">> \o TipChars(Tip5)
  /\ Returned
  /\ last.res.value.rows[2][6] = F(2, <<>>)

\* C5: detect_probetips answered with a success status and an empty payload
\* returns an empty list and does not raise.
C5_EmptyPayload ==
  (last.op = "detect_probetips" /\ last.resp.ok /\ last.resp.msg = <<>>) =>
     (Returned /\ last.res.value = [t |-> "list", rows |-> <<>>])

SnapCall(where) == /\ nSent' = nSent + 1
                   /\ last'.op = "snap_image"
                   /\ last'.args.where = where

\* C6: snap_image with where = Local sends the '**download**' command,
\* base64-decodes the payload of the response and writes exactly those bytes
\* to the given path, leaving every other file alone; with another location
\* it sends the file name as the argument and leaves the file system
\* unchanged.
C6_SnapImage ==
  [][/\ SnapCall("Local") =>
          /\ last'.cmd = "vis:snap_image **download**, "
                           \o SnapshotType_to_string(last'.args.what)
          /\ last'.res.outcome = "return" =>
                /\ b64decode(last'.resp.msg).ok
                /\ fs'[last'.args.file] = File(b64decode(last'.resp.msg).bytes)
                /\ last'.resp.data.t = "image" =>
                      fs'[last'.args.file].bytes = last'.resp.data.bytes
                /\ \A p \in Paths \ {last'.args.file} : fs'[p] = fs[p]
     /\ SnapCall("Prober") =>
          /\ last'.cmd = "vis:snap_image " \o last'.args.file \o ", "
                           \o SnapshotType_to_string(last'.args.what)
          /\ fs' = fs]_vars

C6_Witness ==
  /\ last.op = "snap_image"
  /\ last.args.where = "Local"
  /\ last.args.file = "b.jpg"
  /\ Returned
  /\ fs["b.jpg"] = File(<<65, 66>>)
  /\ fs["a.jpg"] = File(<<7>>)

\* C7: align_wafer with the default mode AlignOnly sends the bare line
\* 'vis:align_wafer'; with any other mode it sends 'vis:align_wafer ' followed
\* by the mode's wire string; either way it sends one line and checks one
\* response.
C7_AlignWafer ==
  last.op = "align_wafer" =>
     /\ last.args.mode = "AlignOnly" => last.cmd = "vis:align_wafer"
     /\ last.args.mode /= "AlignOnly" =>
           last.cmd = "vis:align_wafer " \o AutoAlignCmd_to_string(last.args.mode)
     /\ last.sent = 1
     /\ last.read = 1
     /\ Raised <=> ~last.resp.ok

C7_Witness ==
  /\ last.op = "align_wafer"
  /\ last.args.mode = "AlignOnly"
  /\ last.cmd = "vis:align_wafer"
  /\ last.read = 1

\* The payload is one token, possibly surrounded by white space
SingleToken(msg) ==
  /\ strip(msg) /= <<>>
  /\ \A k \in 1..Len(strip(msg)) : ~IsSpace(strip(msg)[k])

\* C8: has_camera and get_light_status, on a success response with a
\* single-token payload, return true exactly when the token is "1" (compared
\* case-insensitively), so both map the same payload to the same boolean.
C8_BooleanPayload ==
  (last.op \in {"has_camera", "get_light_status"} /\ last.resp.ok /\ SingleToken(last.resp.msg)) =>
     /\ Returned
     /\ last.res.value = Bool(upper(strip(last.resp.msg)) = upper(<<"1">>))
     /\ last.res.value = has_camera_result(last.resp).value
     /\ last.res.value = get_light_status_result(last.resp).value

\* C9 (as stated): when the response to start_execute_compensation has a
\* failure status, the error is raised by the method's own 'not ok' check.
C9_ExplicitRaise ==
  (last.op = "start_execute_compensation" /\ ~last.resp.ok) =>
     /\ Raised
     /\ last.res.exc = "ProberException"
     /\ last.res.excMsg = last.resp.msg
     /\ last.res.raisedAt = "start_execute_compensation"

\* C9 (amended): a failure response makes start_execute_compensation raise
\* ProberException with the instrument's message and return nothing, a
\* success response makes it return the response object, and the error is
\* raised inside the shared response check; the method's own 'not ok' check
\* never raises.
C9_CheckRespRaises ==
  last.op = "start_execute_compensation" =>
     /\ ~last.resp.ok => /\ Raised
                         /\ last.res.exc = "ProberException"
                         /\ last.res.excMsg = last.resp.msg
                         /\ last.res.value = NoValue
                         /\ last.res.raisedAt = "check_resp"
     /\ last.resp.ok => (Returned /\ last.res.value = ResponseObj(last.resp))
     /\ last.res.raisedAt /= "start_execute_compensation"

C9_Witness ==
  /\ last.op = "start_execute_compensation"
  /\ ~last.resp.ok
  /\ Raised
  /\ last.res.raisedAt = "check_resp"

\* C10: snap_image with where = Local leaves the file system as it was and
\* raises when the response has a failure status or its payload is not
\* decodable base64; the file is written only after a success response was
\* decoded.
C10_NoWriteOnFailure ==
  [][SnapCall("Local") =>
       /\ (~last'.resp.ok \/ ~b64decode(last'.resp.msg).ok) =>
             (fs' = fs /\ last'.res.outcome = "raise")
       /\ fs' /= fs => (last'.resp.ok /\ b64decode(last'.resp.msg).ok)]_vars

C10_Witness ==
  /\ last.op = "snap_image"
  /\ last.args.where = "Local"
  /\ last.args.file = "a.jpg"
  /\ last.resp.ok
  /\ ~b64decode(last.resp.msg).ok
  /\ Raised
  /\ last.res.exc = "binascii.Error"
  /\ fs["a.jpg"] = File(<<7>>)

====
